---- MODULE Spec2Model ----
(***************************************************************************)
(* A model of the quadtree crate (src/src): Point, Rectangle, Node and the *)
(* QuadTree handle.                                                        *)
(*                                                                         *)
(* Coordinates.  The crate computes in f32.  The model computes in         *)
(* integers that count eightieths: the integer k stands for the real       *)
(* number k/80.  Every coordinate the model uses (tree bounds, stored      *)
(* positions, query rectangles, test points) is a multiple of 5, that is   *)
(* a multiple of 1/16, and every node rectangle reached is one too, so     *)
(* the f32 sums, differences and halvings the crate performs on them are   *)
(* exact and the integer arithmetic below computes the same values.  The   *)
(* one inexact f32 value is the literal 0.1 of minimum_coordinate_distance *)
(* (8 units here); it only widens a window whose edges are then compared   *)
(* with multiples of 1/16, and f32(0.1) and 0.1 compare alike with those.  *)
(***************************************************************************)
EXTENDS Integers, Sequences, FiniteSets, TLC

VARIABLES
    root,     \* QuadTree.root   : the root Node                (quadtree.rs:11)
    bounds,   \* QuadTree.bounds : the Rectangle of the tree    (quadtree.rs:12)
    status,   \* "ok", or how the process ended: "panic" | "overflow"
    op        \* the last call on the handle, with its arguments and result

vars == <<root, bounds, status, op>>

(***************************************************************************)
(* Bounds of the model.                                                    *)
(***************************************************************************)
\* The most leaves a tree holds.
MaxLen == 3
\* The deepest recursion of Node::insert the stack holds (root call = 0).
MaxDepth == 4

(***************************************************************************)
(* Option<T>: None is the empty sequence, Some(x) the sequence <<x>>.      *)
(***************************************************************************)
None == <<>>
Some(x) == <<x>>
is_some(o) == o # None
is_none(o) == o = None
unwrap(o) == o[1]

(***************************************************************************)
(* point.rs                                                                *)
(***************************************************************************)
Point(x, y) == [x |-> x, y |-> y]

Abs(a) == IF a < 0 THEN -a ELSE a
Max(a, b) == IF a >= b THEN a ELSE b

\* Point::squared_distance
squared_distance(a, b) == (a.x - b.x) * (a.x - b.x) + (a.y - b.y) * (a.y - b.y)

\* PointEq gone wrong: only the x coordinates are compared
PointEq_only_x(a, b) == a.x = b.x

\* #[derive(PartialEq)] on Point: both coordinates equal
PointEq(a, b) == a.x = b.x /\ a.y = b.y

(***************************************************************************)
(* Spatial<T>: a payload with its position, as node.rs and quadtree.rs     *)
(* use it: (data, position).into(), position(), data(), consume().         *)
(***************************************************************************)
Spatial(data, position) == [data |-> data, position |-> position]

(***************************************************************************)
(* rectangle.rs                                                            *)
(***************************************************************************)
BottomLeft == 1
BottomRight == 2
TopRight == 3
TopLeft == 4

Disjoint == [tag |-> "Disjoint"]
Intersection == [tag |-> "Intersection"]
Containment(flag) == [tag |-> "Containment", flag |-> flag]

Rectangle(anchor, width, height) ==
    [anchor |-> anchor, width |-> width, height |-> height]

\* x / 2.0; every width and height the model halves is even
Half(x) == x \div 2

new_centered(center, width, height) ==
    Rectangle(Point(center.x - Half(width), center.y - Half(height)), width, height)

min_x(r) == r.anchor.x
max_x(r) == r.anchor.x + r.width
min_y(r) == r.anchor.y
max_y(r) == r.anchor.y + r.height

\* find_quadrant gone wrong: a point on the outer boundary counts as outside
find_quadrant_open_boundary(r, pt) ==
    IF (pt.x <= min_x(r)) \/ (pt.x >= max_x(r)) \/ (pt.y <= min_y(r)) \/ (pt.y >= max_y(r))
    THEN None
    ELSE LET mid_x == Half(min_x(r) + max_x(r))
             mid_y == Half(min_y(r) + max_y(r))
         IN  IF pt.x > mid_x
             THEN IF pt.y > mid_y THEN Some(TopRight) ELSE Some(BottomRight)
             ELSE IF pt.y > mid_y THEN Some(TopLeft) ELSE Some(BottomLeft)

\* find_quadrant gone wrong: a point on a middle line goes to the right or upper quadrant
find_quadrant_ties_up(r, pt) ==
    IF (pt.x < min_x(r)) \/ (pt.x > max_x(r)) \/ (pt.y < min_y(r)) \/ (pt.y > max_y(r))
    THEN None
    ELSE LET mid_x == Half(min_x(r) + max_x(r))
             mid_y == Half(min_y(r) + max_y(r))
         IN  IF pt.x >= mid_x
             THEN IF pt.y >= mid_y THEN Some(TopRight) ELSE Some(BottomRight)
             ELSE IF pt.y >= mid_y THEN Some(TopLeft) ELSE Some(BottomLeft)

\* Rectangle::find_quadrant
find_quadrant(r, pt) ==
    IF (pt.x < min_x(r)) \/ (pt.x > max_x(r)) \/ (pt.y < min_y(r)) \/ (pt.y > max_y(r))
    THEN None
    ELSE LET mid_x == Half(min_x(r) + max_x(r))
             mid_y == Half(min_y(r) + max_y(r))
         IN  IF pt.x > mid_x
             THEN IF pt.y > mid_y THEN Some(TopRight) ELSE Some(BottomRight)
             ELSE IF pt.y > mid_y THEN Some(TopLeft) ELSE Some(BottomLeft)

\* create_quadrant gone wrong: the top right quadrant is anchored like the top left
create_quadrant_top_right_unshifted(r, quadrant) ==
    LET width == Half(r.width)
        height == Half(r.height)
        anchor == CASE quadrant = BottomLeft -> r.anchor
                    [] quadrant = BottomRight -> Point(r.anchor.x + width, r.anchor.y)
                    [] quadrant = TopRight -> Point(r.anchor.x, r.anchor.y + height)
                    [] quadrant = TopLeft -> Point(r.anchor.x, r.anchor.y + height)
    IN  Rectangle(anchor, width, height)

\* create_quadrant gone wrong: the height is not halved
create_quadrant_full_height(r, quadrant) ==
    LET width == Half(r.width)
        height == Half(r.height)
        anchor == CASE quadrant = BottomLeft -> r.anchor
                    [] quadrant = BottomRight -> Point(r.anchor.x + width, r.anchor.y)
                    [] quadrant = TopRight -> Point(r.anchor.x + width, r.anchor.y + height)
                    [] quadrant = TopLeft -> Point(r.anchor.x, r.anchor.y + height)
    IN  Rectangle(anchor, width, r.height)

\* Rectangle::create_quadrant
create_quadrant(r, quadrant) ==
    LET width == Half(r.width)
        height == Half(r.height)
        anchor == CASE quadrant = BottomLeft -> r.anchor
                    [] quadrant = BottomRight -> Point(r.anchor.x + width, r.anchor.y)
                    [] quadrant = TopRight -> Point(r.anchor.x + width, r.anchor.y + height)
                    [] quadrant = TopLeft -> Point(r.anchor.x, r.anchor.y + height)
    IN  Rectangle(anchor, width, height)

corners(r) ==
    << Point(min_x(r), min_y(r)), Point(max_x(r), min_y(r)),
       Point(max_x(r), max_y(r)), Point(min_x(r), max_y(r)) >>

\* how many of the four corners of `of` lie in `inside`
CornersInside(inside, of) ==
    Cardinality({i \in 1..4 : is_some(find_quadrant(inside, corners(of)[i]))})

\* Rectangle::relation gone wrong: one corner of self inside other already
\* counts as other containing self
relation_contains_too_soon(self, other) ==
    LET inner == CornersInside(self, other) IN
    IF inner = 0
    THEN LET n == CornersInside(other, self) IN
         IF n = 0 THEN Disjoint ELSE Containment(FALSE)
    ELSE IF inner = 4 THEN Containment(TRUE) ELSE Intersection

relation(self, other) ==
    LET inner == CornersInside(self, other) IN
    IF inner = 0
    THEN LET n == CornersInside(other, self) IN
         IF n = 0 THEN Disjoint
         ELSE IF n = 4 THEN Containment(FALSE)
         ELSE Intersection
    ELSE IF inner = 4 THEN Containment(TRUE) ELSE Intersection

(***************************************************************************)
(* lib.rs: enum TreeNode<T> { Point(Spatial<T>), Node(Box<Node<T>>) }.     *)
(* A slot of a Node is an Option<TreeNode<T>>.                             *)
(***************************************************************************)
TreeNodePoint(spatial) == [tag |-> "Point", point |-> spatial]
TreeNodeNode(node) == [tag |-> "Node", node |-> node]

IsPoint(q) == is_some(q) /\ unwrap(q).tag = "Point"
IsNode(q) == is_some(q) /\ unwrap(q).tag = "Node"

(***************************************************************************)
(* node.rs                                                                 *)
(***************************************************************************)
Node_new_bounded(b) == [quadrants |-> <<None, None, None, None>>, bounds |-> b]

\* Node::data: the leaves held directly in the four slots, in slot order
PointsOf(q) == IF IsPoint(q) THEN <<unwrap(q).point>> ELSE <<>>
data(self) ==
    PointsOf(self.quadrants[1]) \o PointsOf(self.quadrants[2])
        \o PointsOf(self.quadrants[3]) \o PointsOf(self.quadrants[4])

\* Node::nodes: the child nodes held directly in the four slots, in slot order
NodesOf(q) == IF IsNode(q) THEN <<unwrap(q).node>> ELSE <<>>
nodes(self) ==
    NodesOf(self.quadrants[1]) \o NodesOf(self.quadrants[2])
        \o NodesOf(self.quadrants[3]) \o NodesOf(self.quadrants[4])

\* Node::is_empty
is_empty(self) == Cardinality({i \in 1..4 : is_some(self.quadrants[i])}) = 0

\* Node::can_insert_unchecked (called on a slot that is Some)
can_insert_unchecked(self, quadrant) == unwrap(self.quadrants[quadrant]).tag = "Node"

(***************************************************************************)
(* Node::insert and Node::split call each other.  Both return               *)
(* [ok, node, why]: ok = FALSE when the call did not return (the expect of  *)
(* insert panicked, or the recursion went deeper than the stack holds).     *)
(***************************************************************************)
Done(node) == [ok |-> TRUE, node |-> node, why |-> "ok"]
Abort(node, why) == [ok |-> FALSE, node |-> node, why |-> why]

\* Node::split gone wrong: the new child node is stored without the leaf it replaces
Node_split_drops_leaf(self, quadrant, depth) ==
    IF IsPoint(self.quadrants[quadrant])
    THEN Done([self EXCEPT !.quadrants[quadrant] =
                   Some(TreeNodeNode(Node_new_bounded(create_quadrant(self.bounds, quadrant))))])
    ELSE Done(self)

RECURSIVE Node_insert(_, _, _)
RECURSIVE Node_split(_, _, _)

\* Node::split gone wrong: the leaf the new child node takes over is put one
\* level further down, in a child node of its own
Node_split_twice(self, quadrant, depth) ==
    IF IsPoint(self.quadrants[quadrant])
    THEN LET leaf == unwrap(self.quadrants[quadrant]).point
             b == create_quadrant(self.bounds, quadrant)
             q2 == unwrap(find_quadrant(b, leaf.position))
             r == Node_insert(Node_new_bounded(create_quadrant(b, q2)), leaf, depth + 2)
             child == [Node_new_bounded(b) EXCEPT !.quadrants[q2] = Some(TreeNodeNode(r.node))]
         IN  IF r.ok
             THEN Done([self EXCEPT !.quadrants[quadrant] = Some(TreeNodeNode(child))])
             ELSE Abort(self, r.why)
    ELSE Done(self)

Node_split(self, quadrant, depth) ==
    IF is_none(self.quadrants[quadrant]) THEN Done(self)
    ELSE LET tn == unwrap(self.quadrants[quadrant]) IN
         IF tn.tag = "Point"
         THEN LET b == create_quadrant(self.bounds, quadrant)
                  r == Node_insert(Node_new_bounded(b), tn.point, depth + 1)
              IN  IF r.ok
                  THEN Done([self EXCEPT !.quadrants[quadrant] = Some(TreeNodeNode(r.node))])
                  ELSE Abort(self, r.why)
         ELSE Done(self)

Node_insert(self, spatial, depth) ==
    IF depth > MaxDepth THEN Abort(self, "overflow")
    ELSE LET fq == find_quadrant(self.bounds, spatial.position) IN
    IF is_none(fq) THEN Abort(self, "panic")
    ELSE LET quadrant == unwrap(fq) IN
    IF is_none(self.quadrants[quadrant])
    THEN Done([self EXCEPT !.quadrants[quadrant] = Some(TreeNodePoint(spatial))])
    ELSE LET s == IF ~can_insert_unchecked(self, quadrant)
                  THEN Node_split(self, quadrant, depth)
                  ELSE Done(self)
         IN  IF ~s.ok THEN s
             ELSE LET tn == unwrap(s.node.quadrants[quadrant]) IN
                  IF tn.tag = "Node"
                  THEN LET r == Node_insert(tn.node, spatial, depth + 1) IN
                       IF r.ok
                       THEN Done([s.node EXCEPT !.quadrants[quadrant] = Some(TreeNodeNode(r.node))])
                       ELSE Abort(self, r.why)
                  ELSE s

\* Node::remove gone wrong: a leaf taken out of the slot is not put back when
\* its position is not the one asked for
RECURSIVE Node_remove_drops_other(_, _)
Node_remove_drops_other(self, pt) ==
    LET fq == find_quadrant(self.bounds, pt) IN
    IF is_none(fq) THEN [node |-> self, ret |-> None]
    ELSE LET quadrant == unwrap(fq)
             taken == self.quadrants[quadrant]
         IN  IF is_none(taken) THEN [node |-> self, ret |-> None]
             ELSE IF unwrap(taken).tag = "Node"
             THEN LET r == Node_remove_drops_other(unwrap(taken).node, pt) IN
                  [node |-> [self EXCEPT !.quadrants[quadrant] = Some(TreeNodeNode(r.node))],
                   ret |-> r.ret]
             ELSE [node |-> [self EXCEPT !.quadrants[quadrant] = None],
                   ret |-> IF PointEq(unwrap(taken).point.position, pt)
                           THEN Some(unwrap(taken).point.data)
                           ELSE None]

\* Node::remove gone wrong: a child node left empty by the removal is not put back
RECURSIVE Node_remove_prunes(_, _)
Node_remove_prunes(self, pt) ==
    LET fq == find_quadrant(self.bounds, pt) IN
    IF is_none(fq) THEN [node |-> self, ret |-> None]
    ELSE LET quadrant == unwrap(fq)
             taken == self.quadrants[quadrant]
         IN  IF is_none(taken) THEN [node |-> self, ret |-> None]
             ELSE IF unwrap(taken).tag = "Node"
             THEN LET r == Node_remove_prunes(unwrap(taken).node, pt) IN
                  [node |-> [self EXCEPT !.quadrants[quadrant] =
                                 IF is_empty(r.node) THEN None ELSE Some(TreeNodeNode(r.node))],
                   ret |-> r.ret]
             ELSE IF PointEq(unwrap(taken).point.position, pt)
                  THEN [node |-> [self EXCEPT !.quadrants[quadrant] = None],
                        ret |-> Some(unwrap(taken).point.data)]
                  ELSE [node |-> self, ret |-> None]

\* Node::remove: [node, ret] = the node afterwards and the Option<T> returned
RECURSIVE Node_remove(_, _)
Node_remove(self, pt) ==
    LET fq == find_quadrant(self.bounds, pt) IN
    IF is_none(fq) THEN [node |-> self, ret |-> None]
    ELSE LET quadrant == unwrap(fq)
             taken == self.quadrants[quadrant]
         IN  IF is_none(taken) THEN [node |-> self, ret |-> None]
             ELSE IF unwrap(taken).tag = "Node"
             THEN LET r == Node_remove(unwrap(taken).node, pt) IN
                  [node |-> [self EXCEPT !.quadrants[quadrant] = Some(TreeNodeNode(r.node))],
                   ret |-> r.ret]
             ELSE IF PointEq(unwrap(taken).point.position, pt)
                  THEN [node |-> [self EXCEPT !.quadrants[quadrant] = None],
                        ret |-> Some(unwrap(taken).point.data)]
                  ELSE [node |-> self, ret |-> None]

\* Node::find gone wrong: a child node is not searched
Node_find_shallow(self, pt) ==
    LET fq == find_quadrant(self.bounds, pt) IN
    IF is_none(fq) THEN None
    ELSE LET q == self.quadrants[unwrap(fq)] IN
         IF IsPoint(q) /\ PointEq(unwrap(q).point.position, pt)
         THEN Some(unwrap(q).point.data)
         ELSE None

\* Node::find
RECURSIVE Node_find(_, _)
Node_find(self, pt) ==
    LET fq == find_quadrant(self.bounds, pt) IN
    IF is_none(fq) THEN None
    ELSE LET q == self.quadrants[unwrap(fq)] IN
         IF is_none(q) THEN None
         ELSE IF unwrap(q).tag = "Point"
              THEN IF PointEq(unwrap(q).point.position, pt)
                   THEN Some(unwrap(q).point.data)
                   ELSE None
              ELSE Node_find(unwrap(q).node, pt)

\* Node::data_count
data_count(self) == Len(data(self))

\* Node::node_children: the direct child nodes, then each one's node_children
RECURSIVE node_children(_)
node_children(self) ==
    LET ns == nodes(self)
        rest[i \in 0..Len(ns)] ==
            IF i = 0 THEN <<>> ELSE rest[i - 1] \o node_children(ns[i])
    IN  ns \o rest[Len(ns)]

\* Node::data_children gone wrong: the leaves of the child nodes come first
RECURSIVE data_children_nodes_first(_)
data_children_nodes_first(self) ==
    LET ns == nodes(self)
        rest[i \in 0..Len(ns)] ==
            IF i = 0 THEN <<>> ELSE rest[i - 1] \o data_children_nodes_first(ns[i])
    IN  rest[Len(ns)] \o data(self)

\* Node::data_children: the direct leaves, then each child node's data_children
RECURSIVE data_children(_)
data_children(self) ==
    LET ns == nodes(self)
        rest[i \in 0..Len(ns)] ==
            IF i = 0 THEN <<>> ELSE rest[i - 1] \o data_children(ns[i])
    IN  data(self) \o rest[Len(ns)]

\* Node::visit_nodes_ref: the nodes in the order the closure sees them
RECURSIVE visit_nodes_ref(_)
visit_nodes_ref(self) ==
    LET ns == nodes(self)
        rest[i \in 0..Len(ns)] ==
            IF i = 0 THEN <<>> ELSE rest[i - 1] \o visit_nodes_ref(ns[i])
    IN  <<self>> \o rest[Len(ns)]

\* Node::visit_nodes with a counting closure: the number of calls
RECURSIVE visit_nodes(_)
visit_nodes(self) ==
    LET ns == nodes(self)
        rest[i \in 0..Len(ns)] ==
            IF i = 0 THEN 0 ELSE rest[i - 1] + visit_nodes(ns[i])
    IN  1 + rest[Len(ns)]

\* Node::node_children_mut: starts from an empty Vec and only ever extends it
\* with the children's own node_children_mut, so it holds no node at all
RECURSIVE node_children_mut(_)
node_children_mut(self) ==
    LET ns == nodes(self)
        rest[i \in 0..Len(ns)] ==
            IF i = 0 THEN <<>> ELSE rest[i - 1] \o node_children_mut(ns[i])
    IN  rest[Len(ns)]

\* unique_quadrants gone wrong: only the quadrant of the first corner is kept
unique_quadrants_first_corner(self, b) ==
    LET fq == find_quadrant(self.bounds, corners(b)[1]) IN
    IF is_none(fq) THEN <<>> ELSE <<unwrap(fq)>>

\* the quadrants of self's bounds that hold a corner of b, each once, in corner order
unique_quadrants(self, b) ==
    LET uq[i \in 0..4] ==
            IF i = 0 THEN <<>>
            ELSE LET fq == find_quadrant(self.bounds, corners(b)[i]) IN
                 IF is_none(fq) \/ (\E j \in 1..Len(uq[i - 1]) : uq[i - 1][j] = unwrap(fq))
                 THEN uq[i - 1]
                 ELSE Append(uq[i - 1], unwrap(fq))
    IN  uq[4]

\* Node::find_in_bounds: None, or Some(the Vec of leaves found)
RECURSIVE Node_find_in_bounds(_, _)
Node_find_in_bounds(self, b) ==
    LET rel == relation(self.bounds, b)
        ds == data(self)
        ns == nodes(self)
        own[i \in 0..Len(ds)] ==
            IF i = 0 THEN <<>>
            ELSE IF is_some(find_quadrant(b, ds[i].position))
                 THEN Append(own[i - 1], ds[i])
                 ELSE own[i - 1]
        sub[i \in 0..Len(ns)] ==
            IF i = 0 THEN <<>>
            ELSE LET r == Node_find_in_bounds(ns[i], b) IN
                 IF is_none(r) THEN sub[i - 1] ELSE sub[i - 1] \o unwrap(r)
        qs == unique_quadrants(self, b)
        per[i \in 0..Len(qs)] ==
            IF i = 0 THEN <<>>
            ELSE LET q == self.quadrants[qs[i]] IN
                 IF is_none(q) THEN per[i - 1]
                 ELSE IF unwrap(q).tag = "Point"
                      THEN IF is_some(find_quadrant(b, unwrap(q).point.position))
                           THEN Append(per[i - 1], unwrap(q).point)
                           ELSE per[i - 1]
                      ELSE LET r == Node_find_in_bounds(unwrap(q).node, b) IN
                           IF is_none(r) THEN per[i - 1] ELSE per[i - 1] \o unwrap(r)
    IN  IF rel.tag = "Disjoint" THEN None
        ELSE IF rel.tag = "Intersection" THEN Some(own[Len(ds)] \o sub[Len(ns)])
        ELSE IF ~rel.flag THEN Some(data_children(self))
        ELSE Some(per[Len(qs)])

\* the literal 0.1 added to the distance (8 units of 1/80)
EPSILON == 8

\* fn coordinate_distance inside minimum_coordinate_distance
coordinate_distance(a, b) == Max(Abs(a.x - b.x), Abs(a.y - b.y))

\* corners sorted by squared distance to pt (a stable sort), reversed, first:
\* of the corners at the greatest distance, the last one in corner order
farthest_corner(r, pt) ==
    LET cs == corners(r)
        far == {i \in 1..4 : \A j \in 1..4 :
                    squared_distance(cs[i], pt) >= squared_distance(cs[j], pt)}
    IN  cs[CHOOSE i \in far : \A j \in far : j <= i]

\* minimum_coordinate_distance gone wrong: a point outside the bounds is measured
\* against the farthest corner instead of being answered with None
RECURSIVE minimum_coordinate_distance_outside_too(_, _)
minimum_coordinate_distance_outside_too(self, pt) ==
    LET fq == find_quadrant(self.bounds, pt) IN
    IF is_none(fq)
    THEN Some(coordinate_distance(pt, farthest_corner(self.bounds, pt)) + EPSILON)
    ELSE LET q == self.quadrants[unwrap(fq)] IN
         IF is_none(q)
         THEN Some(coordinate_distance(pt, farthest_corner(self.bounds, pt)) + EPSILON)
         ELSE IF unwrap(q).tag = "Point"
              THEN Some(coordinate_distance(pt, unwrap(q).point.position) + EPSILON)
              ELSE minimum_coordinate_distance_outside_too(unwrap(q).node, pt)

\* Node::minimum_coordinate_distance: Option<f32>
RECURSIVE minimum_coordinate_distance(_, _)
minimum_coordinate_distance(self, pt) ==
    LET fq == find_quadrant(self.bounds, pt) IN
    IF is_none(fq) THEN None
    ELSE LET q == self.quadrants[unwrap(fq)] IN
         IF is_none(q)
         THEN Some(coordinate_distance(pt, farthest_corner(self.bounds, pt)) + EPSILON)
         ELSE IF unwrap(q).tag = "Point"
              THEN Some(coordinate_distance(pt, unwrap(q).point.position) + EPSILON)
              ELSE minimum_coordinate_distance(unwrap(q).node, pt)

\* Node::collapse gone wrong: the slots are read, not taken, so the node keeps its leaves
Node_collapse_keeps_leaves(self) ==
    LET keep(q) == IF IsPoint(q) THEN q ELSE None IN
    [node |-> [self EXCEPT !.quadrants =
                   << keep(self.quadrants[1]), keep(self.quadrants[2]),
                      keep(self.quadrants[3]), keep(self.quadrants[4]) >>],
     data |-> data_children(self)]

\* Node::collapse gone wrong: the leaves of the child nodes are not collected
Node_collapse_top_only(self) ==
    [node |-> [self EXCEPT !.quadrants = <<None, None, None, None>>],
     data |-> data(self)]

\* Node::collapse: [node, data] = the node afterwards and the Vec returned.
\* Its first loop runs over node_children_mut(), which is empty; its second
\* takes every slot of self: a leaf is pushed, a child node is collapsed and
\* dropped.
RECURSIVE Node_collapse(_)
Node_collapse(self) ==
    LET first == node_children_mut(self)
        fromFirst[i \in 0..Len(first)] ==
            IF i = 0 THEN <<>> ELSE fromFirst[i - 1] \o Node_collapse(first[i]).data
        top[i \in 0..4] ==
            IF i = 0 THEN <<>>
            ELSE LET q == self.quadrants[i] IN
                 IF is_none(q) THEN top[i - 1]
                 ELSE IF unwrap(q).tag = "Point"
                      THEN Append(top[i - 1], unwrap(q).point)
                      ELSE top[i - 1] \o Node_collapse(unwrap(q).node).data
    IN  [node |-> [self EXCEPT !.quadrants = <<None, None, None, None>>],
         data |-> fromFirst[Len(first)] \o top[4]]

\* Node::shrink_children gone wrong: is_empty is tested after the recursion,
\* so a child node emptied by the call is removed by the same call
RECURSIVE Node_shrink_children_bottom_up(_)
Node_shrink_children_bottom_up(self) ==
    LET slot(q) ==
            IF IsNode(q)
            THEN LET n == Node_shrink_children_bottom_up(unwrap(q).node) IN
                 IF is_empty(n) THEN None ELSE Some(TreeNodeNode(n))
            ELSE None
    IN  [self EXCEPT !.quadrants =
            << slot(self.quadrants[1]), slot(self.quadrants[2]),
               slot(self.quadrants[3]), slot(self.quadrants[4]) >>]

\* Node::shrink_children: every slot is taken; only a child node that is not
\* empty is shrunk and put back
RECURSIVE Node_shrink_children(_)
Node_shrink_children(self) ==
    LET slot(q) ==
            IF IsNode(q) /\ ~is_empty(unwrap(q).node)
            THEN Some(TreeNodeNode(Node_shrink_children(unwrap(q).node)))
            ELSE None
    IN  [self EXCEPT !.quadrants =
            << slot(self.quadrants[1]), slot(self.quadrants[2]),
               slot(self.quadrants[3]), slot(self.quadrants[4]) >>]

(***************************************************************************)
(* quadtree.rs.  A call that changes the tree returns [root, ret, why]:    *)
(* the root afterwards, the value returned, and why = "ok" unless the call *)
(* did not return.                                                         *)
(***************************************************************************)
Returned(r, ret) == [root |-> r, ret |-> ret, why |-> "ok"]
Died(r, why) == [root |-> r, ret |-> None, why |-> why]

\* QuadTree::contains gone wrong: nothing is ever found
QuadTree_contains_never(r, pt) == FALSE

\* QuadTree::contains
QuadTree_contains(r, pt) == is_some(Node_find(r, pt))

\* QuadTree::find_exact
QuadTree_find_exact(r, pt) == Node_find(r, pt)

\* QuadTree::insert gone wrong: no test for a leaf already at the position
QuadTree_insert_no_duplicate_test(r, b, d, position) ==
    LET spatial == Spatial(d, position) IN
    IF is_none(find_quadrant(b, spatial.position)) THEN Returned(r, FALSE)
    ELSE LET i == Node_insert(r, spatial, 0) IN
         IF i.ok THEN Returned(i.node, TRUE) ELSE Died(r, i.why)

\* QuadTree::insert
QuadTree_insert(r, b, d, position) ==
    LET spatial == Spatial(d, position) IN
    IF is_none(find_quadrant(b, spatial.position)) THEN Returned(r, FALSE)
    ELSE IF QuadTree_contains(r, spatial.position) THEN Returned(r, FALSE)
    ELSE LET i == Node_insert(r, spatial, 0) IN
         IF i.ok THEN Returned(i.node, TRUE) ELSE Died(r, i.why)

\* insert_unchecked gone wrong: a position that already holds a leaf is left alone
QuadTree_insert_unchecked_tests_first(r, spatial) ==
    IF is_some(Node_find(r, spatial.position)) THEN Returned(r, None)
    ELSE LET i == Node_insert(r, spatial, 0) IN
         IF i.ok THEN Returned(i.node, None) ELSE Died(r, i.why)

\* QuadTree::insert_unchecked and insert_unchecked_spatial
QuadTree_insert_unchecked(r, spatial) ==
    LET i == Node_insert(r, spatial, 0) IN
    IF i.ok THEN Returned(i.node, None) ELSE Died(r, i.why)

\* QuadTree::remove
QuadTree_remove(r, pt) ==
    LET x == Node_remove(r, pt) IN Returned(x.node, x.ret)

\* QuadTree::replace gone wrong: the payload is inserted even when nothing was removed
QuadTree_replace_inserts_anyway(r, b, d, position) ==
    LET x == QuadTree_remove(r, position)
        i == QuadTree_insert(x.root, b, d, position)
    IN  IF i.why = "ok" THEN Returned(i.root, x.ret) ELSE Died(r, i.why)

\* QuadTree::replace
QuadTree_replace(r, b, d, position) ==
    LET x == QuadTree_remove(r, position) IN
    IF is_none(x.ret) THEN Returned(x.root, None)
    ELSE LET i == QuadTree_insert(x.root, b, d, position) IN
         IF i.why = "ok" THEN Returned(i.root, x.ret) ELSE Died(r, i.why)

\* shrink gone wrong: the tree is rebuilt only when it holds no leaf at all
QuadTree_shrink_empty_only(r) ==
    IF Len(data_children(r)) = 0 THEN Returned(Node_collapse(r).node, None) ELSE Returned(r, None)

\* QuadTree::shrink
QuadTree_shrink(r) ==
    LET c == Node_collapse(r)
        re[i \in 0..Len(c.data)] ==
            IF i = 0 THEN Returned(c.node, None)
            ELSE IF re[i - 1].why # "ok" THEN re[i - 1]
                 ELSE QuadTree_insert_unchecked(re[i - 1].root, c.data[i])
    IN  re[Len(c.data)]

\* data.sort_by(squared distance to pt): a stable sort
sort_by_distance(s, pt) ==
    LET key(e) == squared_distance(e.position, pt)
        ins(sorted, e) ==
            LET k == Cardinality({j \in 1..Len(sorted) : key(sorted[j]) <= key(e)}) IN
            SubSeq(sorted, 1, k) \o <<e>> \o SubSeq(sorted, k + 1, Len(sorted))
        srt[i \in 0..Len(s)] == IF i = 0 THEN <<>> ELSE ins(srt[i - 1], s[i])
    IN  srt[Len(s)]

\* Iterator::take(n)
take(s, n) == SubSeq(s, 1, IF n < Len(s) THEN n ELSE Len(s))

\* QuadTree::find_nearest_neighbors
find_nearest_neighbors(r, pt, n) ==
    LET dist == minimum_coordinate_distance(r, pt) IN
    IF is_none(dist) THEN None
    ELSE LET query_rect == new_centered(pt, unwrap(dist) * 2, unwrap(dist) * 2)
             found == Node_find_in_bounds(r, query_rect)
         IN  IF is_none(found) THEN None
             ELSE Some(take(sort_by_distance(unwrap(found), pt), n))

\* QuadTree::find_nearest_neighbor
QuadTree_find_nearest_neighbor(r, pt) ==
    LET it == find_nearest_neighbors(r, pt, 1) IN
    IF is_none(it) \/ unwrap(it) = <<>> THEN None ELSE Some(unwrap(it)[1].data)

\* QuadTree::find_nearest_neighbor_position
QuadTree_find_nearest_neighbor_position(r, pt) ==
    LET it == find_nearest_neighbors(r, pt, 1) IN
    IF is_none(it) \/ unwrap(it) = <<>> THEN None ELSE Some(unwrap(it)[1].position)

\* QuadTree::find_in_bounds
QuadTree_find_in_bounds(r, b) ==
    LET found == Node_find_in_bounds(r, b) IN
    IF is_none(found) THEN None
    ELSE LET m[i \in 0..Len(unwrap(found))] ==
                 IF i = 0 THEN <<>> ELSE Append(m[i - 1], unwrap(found)[i].data)
         IN  Some(m[Len(unwrap(found))])

\* QuadTree::find_in_bounds_positions
QuadTree_find_in_bounds_positions(r, b) ==
    LET found == Node_find_in_bounds(r, b) IN
    IF is_none(found) THEN None
    ELSE LET m[i \in 0..Len(unwrap(found))] ==
                 IF i = 0 THEN <<>> ELSE Append(m[i - 1], unwrap(found)[i].position)
         IN  Some(m[Len(unwrap(found))])

\* QuadTree::node_count
QuadTree_node_count(r) == visit_nodes(r)

\* QuadTree::aabbs
QuadTree_aabbs(r) ==
    LET ns == visit_nodes_ref(r)
        m[i \in 0..Len(ns)] == IF i = 0 THEN <<>> ELSE Append(m[i - 1], ns[i].bounds)
    IN  m[Len(ns)]

\* QuadTree::len
QuadTree_len(r) ==
    LET ns == visit_nodes_ref(r)
        sum[i \in 0..Len(ns)] == IF i = 0 THEN 0 ELSE sum[i - 1] + Len(data(ns[i]))
    IN  sum[Len(ns)]

(***************************************************************************)
(* The inputs of the calls.  1.0 is 80 units.                              *)
(***************************************************************************)
\* the bounds handed to new_bounded: (0,0), 8.0 x 8.0
TreeBounds == {Rectangle(Point(0, 0), 640, 640)}

\* positions inside the bounds: (1,5) (1,6) (0,4.5) (3,7) (8,8)
Inside == {Point(80, 400), Point(80, 480), Point(0, 360), Point(240, 560), Point(640, 640)}
\* a position outside the bounds: (9,1)
Outside == {Point(720, 80)}
Positions == Inside \cup Outside

Payloads == {1, 2}

\* query rectangles: (0.5,3) 1x4, (-1,4.5) 10x1, (-1,3) 6x6, (0.5,5.5) 3x2, (-1,5.5) 10x4
Queries ==
    { Rectangle(Point(40, 240), 80, 320), Rectangle(Point(-80, 360), 800, 80),
      Rectangle(Point(-80, 240), 480, 480), Rectangle(Point(40, 440), 240, 160),
      Rectangle(Point(-80, 440), 800, 320) }

\* test points of the nearest neighbour search: (5,5) (3,5)
TestPoints == {Point(400, 400), Point(240, 400)}

(***************************************************************************)
(* The state machine: one action per public method of QuadTree.            *)
(***************************************************************************)
Call(kind, d, position, query, ret) ==
    [kind |-> kind, data |-> d, position |-> position, query |-> query, ret |-> ret]

Init ==
    /\ bounds \in TreeBounds
    /\ root = Node_new_bounded(bounds)
    /\ status = "ok"
    /\ op = Call("new_bounded", None, None, None, None)

\* a call that may change the tree
Mutate(kind, d, position, r) ==
    /\ root' = r.root
    /\ status' = r.why
    /\ op' = Call(kind, d, position, None, r.ret)
    /\ UNCHANGED bounds

\* a call on &self
Observe(kind, position, query, ret) ==
    /\ op' = Call(kind, None, position, query, ret)
    /\ UNCHANGED <<root, bounds, status>>

Insert(d, position) ==
    /\ status = "ok"
    /\ Mutate("insert", Some(d), Some(position), QuadTree_insert(root, bounds, d, position))

Remove(position) ==
    /\ status = "ok"
    /\ Mutate("remove", None, Some(position), QuadTree_remove(root, position))

Replace(d, position) ==
    /\ status = "ok"
    /\ Mutate("replace", Some(d), Some(position), QuadTree_replace(root, bounds, d, position))

Shrink ==
    /\ status = "ok"
    /\ Mutate("shrink", None, None, QuadTree_shrink(root))

FindInBounds(query) ==
    /\ status = "ok"
    /\ Observe("find_in_bounds", None, Some(query), QuadTree_find_in_bounds(root, query))

FindInBoundsPositions(query) ==
    /\ status = "ok"
    /\ Observe("find_in_bounds_positions", None, Some(query),
               QuadTree_find_in_bounds_positions(root, query))

FindNearestNeighbor(pt) ==
    /\ status = "ok"
    /\ Observe("find_nearest_neighbor", Some(pt), None,
               QuadTree_find_nearest_neighbor(root, pt))

FindNearestNeighborPosition(pt) ==
    /\ status = "ok"
    /\ Observe("find_nearest_neighbor_position", Some(pt), None,
               QuadTree_find_nearest_neighbor_position(root, pt))

Next ==
    \/ \E d \in Payloads, position \in Positions :
           QuadTree_len(root) < MaxLen /\ Insert(d, position)
    \/ \E position \in Positions : Remove(position)
    \/ \E d \in Payloads, position \in Positions : Replace(d, position)
    \/ Shrink

Spec == Init /\ [][Next]_vars

\* the tree is built and thinned by insert and remove, and queried
NextQuery ==
    \/ \E d \in Payloads, position \in Positions :
           QuadTree_len(root) < MaxLen /\ Insert(d, position)
    \/ \E position \in Positions : Remove(position)
    \/ \E query \in Queries : FindInBounds(query)
    \/ \E query \in Queries : FindInBoundsPositions(query)
    \/ \E pt \in TestPoints : FindNearestNeighbor(pt)
    \/ \E pt \in TestPoints : FindNearestNeighborPosition(pt)

SpecQuery == Init /\ [][NextQuery]_vars

(***************************************************************************)
(* The root Node driven the way the crate itself and its unit tests drive  *)
(* a Node: insert without the tests of QuadTree::insert (insert_unchecked),*)
(* remove, find, minimum_coordinate_distance, collapse, shrink_children.   *)
(***************************************************************************)
\* positions handed to the node: (1,5) (0,4.5) (7,7) (8,8) inside, (9,1) outside
NodePositions ==
    {Point(80, 400), Point(0, 360), Point(560, 560), Point(640, 640)} \cup Outside

InsertUnchecked(d, position) ==
    /\ status = "ok"
    /\ Mutate("insert_unchecked", Some(d), Some(position),
              QuadTree_insert_unchecked(root, Spatial(d, position)))

NodeRemove(position) ==
    /\ status = "ok"
    /\ LET x == Node_remove(root, position) IN
       Mutate("Node::remove", None, Some(position), Returned(x.node, x.ret))

NodeFind(position) ==
    /\ status = "ok"
    /\ Observe("Node::find", Some(position), None, Node_find(root, position))

NodeMinimumCoordinateDistance(position) ==
    /\ status = "ok"
    /\ Observe("Node::minimum_coordinate_distance", Some(position), None,
               minimum_coordinate_distance(root, position))

NodeCollapse ==
    /\ status = "ok"
    /\ LET c == Node_collapse(root) IN
       Mutate("Node::collapse", None, None, Returned(c.node, c.data))

NodeShrinkChildren ==
    /\ status = "ok"
    /\ Mutate("Node::shrink_children", None, None,
              Returned(Node_shrink_children(root), None))

NextNode ==
    \/ \E d \in Payloads, position \in NodePositions :
           QuadTree_len(root) < MaxLen /\ InsertUnchecked(d, position)
    \/ \E position \in NodePositions : NodeRemove(position)
    \/ \E position \in NodePositions : NodeFind(position)
    \/ \E position \in NodePositions : NodeMinimumCoordinateDistance(position)
    \/ NodeCollapse
    \/ NodeShrinkChildren

SpecNode == Init /\ [][NextNode]_vars

(***************************************************************************)
(* What the properties below speak of, read off the tree itself.           *)
(***************************************************************************)
\* every leaf of the tree
Leaves(r) == data_children(r)

\* the leaves stored at exactly position P
LeavesAt(r, P) == {i \in 1..Len(Leaves(r)) : Leaves(r)[i].position = P}

\* p lies in rectangle q, boundary included
InsideRect(q, p) ==
    /\ q.anchor.x <= p.x /\ p.x <= q.anchor.x + q.width
    /\ q.anchor.y <= p.y /\ p.y <= q.anchor.y + q.height

\* the positions of Positions at which find_exact finds something
Found(r) == {P \in Positions : is_some(QuadTree_find_exact(r, P))}

\* find_exact gives the same answer in r1 and r2 at every position
SameContent(r1, r2) ==
    \A P \in Positions : QuadTree_find_exact(r1, P) = QuadTree_find_exact(r2, P)

(***************************************************************************)
(* C1.  Once insert(v, P) has returned true, find_exact(P) returns v, and  *)
(* keeps doing so across every insert or remove of another position       *)
(* (splits of P's slot included) and across shrink(); remove(P) returns    *)
(* what find_exact(P) returned just before and leaves find_exact(P) None,  *)
(* so that a second remove(P) returns None.                                *)
(***************************************************************************)
C1_Step ==
    /\ (op'.kind = "insert" /\ status' = "ok" /\ op'.ret = TRUE)
           => QuadTree_find_exact(root', unwrap(op'.position)) = op'.data
    /\ (op'.kind \in {"insert", "remove", "shrink"} /\ status' = "ok")
           => \A P \in Positions :
                  (op'.kind = "shrink" \/ unwrap(op'.position) # P)
                      => QuadTree_find_exact(root', P) = QuadTree_find_exact(root, P)
    /\ op'.kind = "remove"
           => /\ op'.ret = QuadTree_find_exact(root, unwrap(op'.position))
              /\ QuadTree_find_exact(root', unwrap(op'.position)) = None
    /\ op'.kind \in {"insert", "remove", "shrink"} => status' = "ok"

C1_InsertFindRemove == [][C1_Step]_vars

\* an insert has just gone into a slot that holds a child node, next to other leaves
C1_Witness ==
    /\ op.kind = "insert" /\ status = "ok" /\ op.ret = TRUE
    /\ IsNode(root.quadrants[unwrap(find_quadrant(bounds, unwrap(op.position)))])
    /\ Len(Leaves(root)) >= 2

(***************************************************************************)
(* C2.  insert(v, P) returns false exactly when P is outside the bounds or *)
(* a leaf is stored at exactly P, and then the tree is unchanged (len,     *)
(* node_count, find_exact everywhere, in fact the whole root); otherwise   *)
(* it returns true.                                                        *)
(***************************************************************************)
C2_Step ==
    op'.kind = "insert" =>
        LET P == unwrap(op'.position)
            rejected == ~InsideRect(bounds, P) \/ LeavesAt(root, P) # {}
        IN  /\ status' = "ok"
            /\ op'.ret = ~rejected
            /\ rejected =>
                   /\ QuadTree_len(root') = QuadTree_len(root)
                   /\ QuadTree_node_count(root') = QuadTree_node_count(root)
                   /\ SameContent(root', root)
                   /\ root' = root

C2_InsertRejects == [][C2_Step]_vars

\* an insert at a stored position has just been rejected
C2_Witness ==
    /\ op.kind = "insert" /\ status = "ok" /\ op.ret = FALSE
    /\ LeavesAt(root, unwrap(op.position)) # {}
    /\ QuadTree_node_count(root) >= 2

(***************************************************************************)
(* C3.  Through insert, remove, replace and shrink no call fails and no    *)
(* two leaves of the tree have the same position.                          *)
(***************************************************************************)
C3_NoTwoLeavesAtOnePosition ==
    /\ status = "ok"
    /\ \A i, j \in 1..Len(Leaves(root)) :
           i # j => Leaves(root)[i].position # Leaves(root)[j].position

\* a replace has just taken a leaf out and inserted one at the same position
C3_Witness ==
    /\ op.kind = "replace" /\ is_some(op.ret)
    /\ Len(Leaves(root)) >= 2

(***************************************************************************)
(* C4.  len() is the number of positions stored: 0 for a new tree, one     *)
(* more after an insert that returned true, one less after a remove that   *)
(* returned Some, and the same after a rejected insert, a remove that      *)
(* returned None, a replace and a shrink.                                  *)
(***************************************************************************)
C4_Step ==
    /\ op.kind = "new_bounded" => QuadTree_len(root) = 0
    /\ QuadTree_len(root) = Cardinality(Found(root))
    /\ status' = "ok" => QuadTree_len(root') = Cardinality(Found(root'))
    /\ status' = "ok" =>
           QuadTree_len(root') =
               CASE op'.kind = "insert" /\ op'.ret = TRUE -> QuadTree_len(root) + 1
                 [] op'.kind = "remove" /\ is_some(op'.ret) -> QuadTree_len(root) - 1
                 [] OTHER -> QuadTree_len(root)

C4_Len == [][C4_Step]_vars

\* an insert has just returned true and the tree holds three leaves or more
C4_Witness ==
    /\ op.kind = "insert" /\ status = "ok" /\ op.ret = TRUE
    /\ QuadTree_len(root) >= 3

(***************************************************************************)
(* C5.  replace(v, P) with a leaf of payload old at exactly P returns      *)
(* Some(old), find_exact(P) is v afterwards, and len() and node_count()    *)
(* are as before; with nothing stored at P it returns None, does not       *)
(* insert v and leaves the tree unchanged.                                 *)
(***************************************************************************)
C5_Step ==
    op'.kind = "replace" =>
        LET P == unwrap(op'.position)
            at == LeavesAt(root, P)
        IN  /\ status' = "ok"
            /\ at # {} =>
                   /\ \E i \in at : op'.ret = Some(Leaves(root)[i].data)
                   /\ QuadTree_find_exact(root', P) = op'.data
                   /\ QuadTree_len(root') = QuadTree_len(root)
                   /\ QuadTree_node_count(root') = QuadTree_node_count(root)
            /\ at = {} =>
                   /\ op'.ret = None
                   /\ QuadTree_find_exact(root', P) = None
                   /\ root' = root

C5_Replace == [][C5_Step]_vars

\* a replace has just put another payload on a leaf below the root node
C5_Witness ==
    /\ op.kind = "replace" /\ is_some(op.ret) /\ op.ret # op.data
    /\ QuadTree_node_count(root) >= 2
    /\ IsNode(root.quadrants[unwrap(find_quadrant(bounds, unwrap(op.position)))])

(***************************************************************************)
(* Range queries and nearest neighbours, under SpecQuery.                  *)
(***************************************************************************)
\* the Vec a query returned; None holds no match
Matches(ret) == IF is_none(ret) THEN <<>> ELSE unwrap(ret)

\* the leaves of the tree inside the rectangle q, boundary included
LeavesIn(r, q) == {i \in 1..Len(Leaves(r)) : InsideRect(q, Leaves(r)[i].position)}

(***************************************************************************)
(* C6.  Range query completeness: find_in_bounds returns every stored      *)
(* point that lies inside the query rectangle (boundary included), and a   *)
(* query covering exactly K stored points yields exactly K matches.        *)
(***************************************************************************)
C6_RangeQueryComplete ==
    /\ op.kind = "find_in_bounds_positions" =>
           LET q == unwrap(op.query) IN
           /\ \A i \in LeavesIn(root, q) :
                  \E j \in 1..Len(Matches(op.ret)) :
                      Matches(op.ret)[j] = Leaves(root)[i].position
           /\ Len(Matches(op.ret)) = Cardinality(LeavesIn(root, q))
    /\ op.kind = "find_in_bounds" =>
           LET q == unwrap(op.query) IN
           /\ \A i \in LeavesIn(root, q) :
                  \E j \in 1..Len(Matches(op.ret)) :
                      Matches(op.ret)[j] = Leaves(root)[i].data
           /\ Len(Matches(op.ret)) = Cardinality(LeavesIn(root, q))

(***************************************************************************)
(* C7.  Range query soundness: every element find_in_bounds returns is a   *)
(* stored leaf inside the query rectangle (boundary included) and no leaf  *)
(* is returned twice, the subtrees returned whole included.                *)
(***************************************************************************)
C7_RangeQuerySound ==
    /\ op.kind = "find_in_bounds_positions" =>
           LET q == unwrap(op.query)
               m == Matches(op.ret)
           IN  /\ \A j \in 1..Len(m) :
                      /\ InsideRect(q, m[j])
                      /\ LeavesAt(root, m[j]) # {}
               /\ \A j, k \in 1..Len(m) : j # k => m[j] # m[k]
    /\ op.kind = "find_in_bounds" =>
           LET q == unwrap(op.query)
               m == Matches(op.ret)
           IN  \* the payloads returned are those of distinct leaves inside q
               \E f \in [1..Len(m) -> LeavesIn(root, q)] :
                   /\ \A j \in 1..Len(m) : Leaves(root)[f[j]].data = m[j]
                   /\ \A j, k \in 1..Len(m) : j # k => f[j] # f[k]

\* a query has just returned, without testing them, the two or more leaves
\* of a child node that lies inside it
C7_Witness ==
    /\ op.kind = "find_in_bounds_positions"
    /\ relation(root.bounds, unwrap(op.query)).tag = "Intersection"
    /\ \E i \in 1..Len(nodes(root)) :
           /\ relation(nodes(root)[i].bounds, unwrap(op.query)) = Containment(FALSE)
           /\ Len(data_children(nodes(root)[i])) >= 2
    /\ Len(Matches(op.ret)) >= 2

(***************************************************************************)
(* C8.  With at least one point stored and the test point inside the       *)
(* bounds, find_nearest_neighbor returns the payload, and                  *)
(* find_nearest_neighbor_position the position, of a stored point whose    *)
(* squared distance to the test point is the least among the stored ones.  *)
(***************************************************************************)
Nearest(r, pt) ==
    {i \in 1..Len(Leaves(r)) :
        \A j \in 1..Len(Leaves(r)) :
            squared_distance(Leaves(r)[i].position, pt)
                <= squared_distance(Leaves(r)[j].position, pt)}

C8_NearestNeighbor ==
    /\ (op.kind = "find_nearest_neighbor_position" /\ Len(Leaves(root)) >= 1
            /\ InsideRect(bounds, unwrap(op.position)))
           => /\ is_some(op.ret)
              /\ \E i \in Nearest(root, unwrap(op.position)) :
                     Leaves(root)[i].position = unwrap(op.ret)
    /\ (op.kind = "find_nearest_neighbor" /\ Len(Leaves(root)) >= 1
            /\ InsideRect(bounds, unwrap(op.position)))
           => /\ is_some(op.ret)
              /\ \E i \in Nearest(root, unwrap(op.position)) :
                     Leaves(root)[i].data = unwrap(op.ret)

(***************************************************************************)
(* C9.  shrink(), which collapses the root and inserts every leaf it       *)
(* returned, keeps len() and the result of find_exact at every position,   *)
(* whatever inserts and removes came before.                               *)
(***************************************************************************)
C9_Step ==
    op'.kind = "shrink" =>
        /\ status' = "ok"
        /\ QuadTree_len(root') = QuadTree_len(root)
        /\ SameContent(root', root)
        /\ Len(Node_collapse(root).data) = QuadTree_len(root)

C9_ShrinkRoundTrip == [][C9_Step]_vars

\* a shrink has just rebuilt a tree of two or more leaves with a leaf below the root node
C9_Witness ==
    /\ op.kind = "shrink"
    /\ QuadTree_len(root) >= 2
    /\ QuadTree_len(root) > data_count(root)

(***************************************************************************)
(* C10.  remove leaves the node structure alone: node_count() and aabbs()  *)
(* are the same before and after, whether it returns Some or None, also    *)
(* when it leaves child nodes without any leaf.                            *)
(***************************************************************************)
C10_Step ==
    op'.kind = "remove" =>
        /\ QuadTree_node_count(root') = QuadTree_node_count(root)
        /\ QuadTree_aabbs(root') = QuadTree_aabbs(root)

C10_RemoveKeepsNodes == [][C10_Step]_vars

\* a remove has just taken the last leaf out of a tree that keeps its child nodes
C10_Witness ==
    /\ op.kind = "remove" /\ is_some(op.ret)
    /\ QuadTree_len(root) = 0
    /\ QuadTree_node_count(root) >= 3

(***************************************************************************)
(* C11.  Every checked insert returns: an insert of a new position walks   *)
(* down to the slot of its position and, when that slot holds a leaf,      *)
(* creates one child node per level at which the leaf and the new point    *)
(* fall into the same quadrant, and stops at the first level where they    *)
(* part.                                                                   *)
(***************************************************************************)
\* the slot a point comes to in the tree: [bounds, slot] of the deepest node
\* on its path and what that slot holds
RECURSIVE SlotOf(_, _)
SlotOf(n, P) ==
    LET q == n.quadrants[unwrap(find_quadrant(n.bounds, P))] IN
    IF IsNode(q) THEN SlotOf(unwrap(q).node, P)
    ELSE [bounds |-> n.bounds, slot |-> q]

\* the levels, starting with the quadrant of b that holds both, at which L
\* and P are still in one quadrant
RECURSIVE SharedLevels(_, _, _)
SharedLevels(b, L, P) ==
    LET c == create_quadrant(b, unwrap(find_quadrant(b, L))) IN
    IF find_quadrant(c, L) = find_quadrant(c, P)
    THEN 1 + SharedLevels(c, L, P)
    ELSE 1

C11_Step ==
    op'.kind = "insert" =>
        /\ status' = "ok"
        /\ op'.ret = TRUE =>
               LET P == unwrap(op'.position)
                   at == SlotOf(root, P)
               IN  QuadTree_node_count(root') - QuadTree_node_count(root) =
                       IF is_none(at.slot) THEN 0
                       ELSE SharedLevels(at.bounds, unwrap(at.slot).point.position, P)

C11_InsertTerminates == [][C11_Step]_vars

\* an insert has just returned after three splits in a row
C11_Witness ==
    /\ op.kind = "insert" /\ status = "ok" /\ op.ret = TRUE
    /\ \E n \in 1..4, m \in 1..4, k \in 1..4 :
           /\ IsNode(root.quadrants[n])
           /\ IsNode(unwrap(root.quadrants[n]).node.quadrants[m])
           /\ IsNode(unwrap(unwrap(root.quadrants[n]).node.quadrants[m]).node.quadrants[k])
    /\ QuadTree_len(root) = 2

(***************************************************************************)
(* C12.  Every leaf stored in slot q of a node N lies in quadrant q of N's  *)
(* bounds (find_quadrant gives q: inside the bounds, right of the middle   *)
(* for the right slots, above it for the top slots), and so within the     *)
(* bounds of every node on its path from the root.                         *)
(***************************************************************************)
\* p is in quadrant q of rectangle b, read off the coordinates
InQuadrant(b, q, p) ==
    /\ InsideRect(b, p)
    /\ (2 * p.x > 2 * b.anchor.x + b.width) <=> (q \in {BottomRight, TopRight})
    /\ (2 * p.y > 2 * b.anchor.y + b.height) <=> (q \in {TopRight, TopLeft})

C12_LeavesInTheirQuadrant ==
    /\ status = "ok"
    /\ \A i \in 1..Len(visit_nodes_ref(root)) :
           LET N == visit_nodes_ref(root)[i] IN
           /\ \A q \in 1..4 :
                  IsPoint(N.quadrants[q]) =>
                      /\ find_quadrant(N.bounds, unwrap(N.quadrants[q]).point.position) = Some(q)
                      /\ InQuadrant(N.bounds, q, unwrap(N.quadrants[q]).point.position)
           /\ \A j \in 1..Len(data_children(N)) :
                  InsideRect(N.bounds, data_children(N)[j].position)

\* a leaf on the middle line of its node, three levels below the root
C12_Witness ==
    \E i \in 1..Len(visit_nodes_ref(root)) :
        LET N == visit_nodes_ref(root)[i] IN
        /\ N.bounds.width * 8 = bounds.width
        /\ \E q \in 1..4 :
               /\ IsPoint(N.quadrants[q])
               /\ 2 * unwrap(N.quadrants[q]).point.position.y
                      = 2 * N.bounds.anchor.y + N.bounds.height

(***************************************************************************)
(* C13.  The root node keeps the bounds given to new_bounded, and a child  *)
(* node in slot q of a node N has half N's width and half N's height and   *)
(* its anchor at the corner of quadrant q.                                 *)
(***************************************************************************)
C13_BoundsHalve ==
    /\ root.bounds = bounds
    /\ bounds \in TreeBounds
    /\ \A i \in 1..Len(visit_nodes_ref(root)) :
           LET N == visit_nodes_ref(root)[i] IN
           \A q \in 1..4 :
               IsNode(N.quadrants[q]) =>
                   LET c == unwrap(N.quadrants[q]).node.bounds IN
                   /\ c = create_quadrant(N.bounds, q)
                   /\ 2 * c.width = N.bounds.width
                   /\ 2 * c.height = N.bounds.height
                   /\ c.anchor.x = N.bounds.anchor.x
                          + (IF q \in {BottomRight, TopRight} THEN c.width ELSE 0)
                   /\ c.anchor.y = N.bounds.anchor.y
                          + (IF q \in {TopRight, TopLeft} THEN c.height ELSE 0)

\* a tree with child nodes in the top left and top right slots of the root
\* and a child node below one of them
C13_Witness ==
    /\ IsNode(root.quadrants[TopLeft]) /\ IsNode(root.quadrants[TopRight])
    /\ QuadTree_node_count(root) >= 4

(***************************************************************************)
(* Node operations, under SpecNode.                                        *)
(***************************************************************************)
\* how often the leaf e occurs in the sequence s of leaves
Count(s, e) == Cardinality({i \in 1..Len(s) : s[i] = e})

\* the sequences s and t hold the same leaves, each as often in s as in t
SameLeaves(s, t) ==
    /\ Len(s) = Len(t)
    /\ \A i \in 1..Len(s) : Count(s, s[i]) = Count(t, s[i])

(***************************************************************************)
(* C14.  collapse() returns every leaf of the subtree exactly once, with   *)
(* the position and payload stored, whatever its depth, and leaves the     *)
(* node with four empty slots: no leaf and no child node.                  *)
(***************************************************************************)
C14_Step ==
    op'.kind = "Node::collapse" =>
        /\ status' = "ok"
        /\ SameLeaves(op'.ret, Leaves(root))
        /\ \A q \in 1..4 : is_none(root'.quadrants[q])
        /\ data_children(root') = <<>>
        /\ node_children(root') = <<>>
        /\ root'.bounds = root.bounds

C14_CollapseReturnsAll == [][C14_Step]_vars

\* a collapse has just returned three leaves, two of them from three levels down
C14_Witness ==
    /\ op.kind = "Node::collapse"
    /\ Len(op.ret) = 3
    /\ \E i, j \in 1..3 :
           /\ op.ret[i].position = Point(80, 400)
           /\ op.ret[j].position = Point(0, 360)
    /\ is_empty(root)

(***************************************************************************)
(* C15.  shrink_children() leaves every stored leaf in place: the leaves   *)
(* reachable from the node and find(P) for every P are the same before     *)
(* and after the call; only child nodes without any leaf are removed.      *)
(***************************************************************************)
C15_Step ==
    op'.kind = "Node::shrink_children" =>
        /\ SameLeaves(Leaves(root'), Leaves(root))
        /\ \A P \in NodePositions : Node_find(root', P) = Node_find(root, P)

C15_ShrinkChildrenKeepsLeaves == [][C15_Step]_vars

(***************************************************************************)
(* C16.  shrink_children() twice in a row: the node count after the        *)
(* second call is the node count after the first.                          *)
(***************************************************************************)
C16_Step ==
    op'.kind = "Node::shrink_children" =>
        QuadTree_node_count(Node_shrink_children(root')) = QuadTree_node_count(root')

C16_ShrinkChildrenIdempotent == [][C16_Step]_vars

(***************************************************************************)
(* C16, as the code has it.  A call of shrink_children() removes exactly   *)
(* the child nodes that had four empty slots before the call: is_empty is  *)
(* tested before the recursion, so a child node left empty by the call     *)
(* itself stays until the next call.  The node count never grows, and a    *)
(* second call leaves it as it is exactly when the first call left no      *)
(* child node with four empty slots.                                       *)
(***************************************************************************)
\* the nodes below r that have four empty slots
EmptyBelow(r) ==
    Cardinality({i \in 2..Len(visit_nodes_ref(r)) : is_empty(visit_nodes_ref(r)[i])})

C16_AmendedStep ==
    op'.kind = "Node::shrink_children" =>
        LET second == Node_shrink_children(root') IN
        /\ status' = "ok"
        /\ QuadTree_node_count(root') = QuadTree_node_count(root) - EmptyBelow(root)
        /\ QuadTree_node_count(second) = QuadTree_node_count(root') - EmptyBelow(root')
        /\ QuadTree_node_count(second) <= QuadTree_node_count(root')
        /\ (QuadTree_node_count(second) = QuadTree_node_count(root')) <=> (EmptyBelow(root') = 0)

C16_ShrinkChildrenRemovesEmptyOnly == [][C16_AmendedStep]_vars

\* a call has just left a chain of two nested child nodes, the lower one with
\* four empty slots, which the next call removes
C16_Witness ==
    /\ op.kind = "Node::shrink_children"
    /\ QuadTree_node_count(root) = 3
    /\ Len(nodes(root)) = 1
    /\ EmptyBelow(root) = 1

(***************************************************************************)
(* C17.  An insert_unchecked of a leaf at exactly the position of a stored *)
(* leaf never returns: old and new leaf fall into the same quadrant of     *)
(* every new child node, so insert splits and recurses until the stack is  *)
(* used up.  At a position inside the bounds that holds no leaf it         *)
(* returns.                                                                *)
(***************************************************************************)
C17_Step ==
    (op'.kind = "insert_unchecked" /\ InsideRect(bounds, unwrap(op'.position))) =>
        LET P == unwrap(op'.position) IN
        /\ LeavesAt(root, P) # {} => status' = "overflow"
        /\ LeavesAt(root, P) = {} =>
               /\ status' = "ok"
               /\ Node_find(root', P) = op'.data

C17_DuplicateNeverReturns == [][C17_Step]_vars

\* an insert_unchecked at the position of a leaf two levels down has used up the stack
C17_Witness ==
    /\ op.kind = "insert_unchecked" /\ status = "overflow"
    /\ LeavesAt(root, unwrap(op.position)) # {}
    /\ \A i \in 1..Len(data(root)) : data(root)[i].position # unwrap(op.position)
    /\ QuadTree_node_count(root) >= 3

(***************************************************************************)
(* C18.  Every Node operation called with a point outside the node's       *)
(* bounds (insert, remove, find, minimum_coordinate_distance) returns None *)
(* or does nothing, raises no fatal error and leaves the tree unchanged.   *)
(***************************************************************************)
\* the operations of SpecNode that take a point
PointOps ==
    {"insert_unchecked", "Node::remove", "Node::find", "Node::minimum_coordinate_distance"}

C18_Step ==
    (op'.kind \in PointOps /\ ~InsideRect(bounds, unwrap(op'.position))) =>
        /\ status' = "ok"
        /\ op'.ret = None
        /\ root' = root

C18_OutOfBoundsIsNoOp == [][C18_Step]_vars

(***************************************************************************)
(* C18, as the code has it.  With a point outside the node's bounds,       *)
(* remove, find and minimum_coordinate_distance return None and leave the  *)
(* tree unchanged; insert panics ("data outside of bounds!").              *)
(***************************************************************************)
C18_AmendedStep ==
    (op'.kind \in PointOps /\ ~InsideRect(bounds, unwrap(op'.position))) =>
        /\ op'.kind = "insert_unchecked" => status' = "panic"
        /\ op'.kind # "insert_unchecked" =>
               /\ status' = "ok"
               /\ op'.ret = None
               /\ root' = root

C18_OutOfBoundsInsertPanics == [][C18_AmendedStep]_vars

\* minimum_coordinate_distance has just answered None for a point outside a
\* node that holds leaves and child nodes
C18_Witness ==
    /\ op.kind = "Node::minimum_coordinate_distance"
    /\ ~InsideRect(bounds, unwrap(op.position))
    /\ op.ret = None
    /\ Len(Leaves(root)) >= 2 /\ QuadTree_node_count(root) >= 2

(***************************************************************************)
(* C19.  A remove(P) that returns None leaves the tree exactly as it was:  *)
(* with P outside the bounds, with an empty slot on P's path, and with a   *)
(* leaf at another position in P's slot, which is put back with its        *)
(* payload and still found afterwards.  It returns None exactly when no    *)
(* leaf is stored at P.                                                    *)
(***************************************************************************)
C19_Step ==
    op'.kind = "remove" =>
        LET P == unwrap(op'.position) IN
        /\ status' = "ok"
        /\ (op'.ret = None) <=> (LeavesAt(root, P) = {})
        /\ op'.ret = None =>
               /\ root' = root
               /\ SameLeaves(Leaves(root'), Leaves(root))
               /\ SameContent(root', root)
               /\ InsideRect(bounds, P) =>
                      LET at == SlotOf(root, P) IN
                      IsPoint(at.slot) =>
                          /\ SlotOf(root', P) = at
                          /\ QuadTree_find_exact(root', unwrap(at.slot).point.position)
                                 = Some(unwrap(at.slot).point.data)

C19_RemoveNoneKeepsTree == [][C19_Step]_vars

\* a remove has just returned None at a position whose slot, below the root
\* node, holds a leaf at another position
C19_Witness ==
    /\ op.kind = "remove" /\ op.ret = None
    /\ InsideRect(bounds, unwrap(op.position))
    /\ IsPoint(SlotOf(root, unwrap(op.position)).slot)
    /\ SlotOf(root, unwrap(op.position)).bounds # bounds

(***************************************************************************)
(* The order of the Vec a range query returns, under SpecQuery.            *)
(***************************************************************************)
\* the positions find_in_bounds hands back for the query of the last call, in order
Hits == Matches(QuadTree_find_in_bounds_positions(root, unwrap(op.query)))

\* where position p stands in the sequence m of positions, 0 when it does not
IndexOf(m, p) == IF \E i \in 1..Len(m) : m[i] = p
                 THEN CHOOSE i \in 1..Len(m) : m[i] = p
                 ELSE 0

\* the positions of the leaves found under slot s of node N: the leaf the slot
\* holds, or the leaves of the child node it holds
UnderSlot(N, s) ==
    IF IsPoint(N.quadrants[s]) THEN {unwrap(N.quadrants[s]).point.position}
    ELSE IF IsNode(N.quadrants[s])
         THEN {data_children(unwrap(N.quadrants[s]).node)[i].position :
                   i \in 1..Len(data_children(unwrap(N.quadrants[s]).node))}
         ELSE {}

\* the call was a range query and what it returned are the Hits
IsRangeQuery ==
    /\ op.kind \in {"find_in_bounds", "find_in_bounds_positions"}
    /\ op.kind = "find_in_bounds_positions" => Matches(op.ret) = Hits
    /\ op.kind = "find_in_bounds" =>
           /\ Len(Matches(op.ret)) = Len(Hits)
           /\ \A j \in 1..Len(Hits) :
                  QuadTree_find_exact(root, Hits[j]) = Some(Matches(op.ret)[j])

\* at node N every returned leaf held in a slot of N stands before every
\* returned leaf of a child node of N
OwnBeforeChildren(N, h) ==
    \A sa, sb \in 1..4 :
        (IsPoint(N.quadrants[sa]) /\ IsNode(N.quadrants[sb])) =>
            \A a \in UnderSlot(N, sa), b \in UnderSlot(N, sb) :
                (IndexOf(h, a) > 0 /\ IndexOf(h, b) > 0)
                    => IndexOf(h, a) < IndexOf(h, b)

(***************************************************************************)
(* C20.  Result order of find_in_bounds: at every node visited, in the     *)
(* Intersection, the query-contains-node and the node-contains-query       *)
(* branch alike, the matching leaves held in the node's own slots stand    *)
(* before every leaf that comes from one of its child nodes.               *)
(***************************************************************************)
C20_OwnLeavesFirst ==
    op.kind \in {"find_in_bounds", "find_in_bounds_positions"} =>
        LET h == Hits
            ns == visit_nodes_ref(root)
        IN  /\ IsRangeQuery
            /\ \A i \in 1..Len(ns) : OwnBeforeChildren(ns[i], h)

(***************************************************************************)
(* C20, as the code has it.  In the Intersection and the                   *)
(* query-contains-node branch the node's own matching leaves stand before  *)
(* the leaves of its child nodes, each group in slot order.  In the        *)
(* node-contains-query branch the slots are visited in the order in which  *)
(* the corners of the query (bottom left, bottom right, top right, top     *)
(* left) first fall into them, leaf slot and child node alike, so a leaf   *)
(* of a child node can stand before a leaf of the node itself.             *)
(***************************************************************************)
\* the first corner of q, in corner order, that falls into slot s of N; 5 if none does
CornerRank(N, q, s) ==
    LET hit == {i \in 1..4 : find_quadrant(N.bounds, corners(q)[i]) = Some(s)} IN
    IF hit = {} THEN 5 ELSE CHOOSE i \in hit : \A j \in hit : i <= j

\* at node N, which contains the query q, the returned leaves follow the
\* order in which the corners of q fall into the slots
CornerOrder(N, q, h) ==
    \A sa, sb \in 1..4 :
        CornerRank(N, q, sa) < CornerRank(N, q, sb) =>
            \A a \in UnderSlot(N, sa), b \in UnderSlot(N, sb) :
                (IndexOf(h, a) > 0 /\ IndexOf(h, b) > 0)
                    => IndexOf(h, a) < IndexOf(h, b)

\* at node N the returned leaves of two leaf slots, and of two child nodes,
\* follow the slot order
SlotOrder(N, h) ==
    \A sa, sb \in 1..4 :
        (sa < sb /\ (IsPoint(N.quadrants[sa]) <=> IsPoint(N.quadrants[sb]))) =>
            \A a \in UnderSlot(N, sa), b \in UnderSlot(N, sb) :
                (IndexOf(h, a) > 0 /\ IndexOf(h, b) > 0)
                    => IndexOf(h, a) < IndexOf(h, b)

C20_OrderByBranch ==
    op.kind \in {"find_in_bounds", "find_in_bounds_positions"} =>
        LET h == Hits
            ns == visit_nodes_ref(root)
            q == unwrap(op.query)
        IN  /\ IsRangeQuery
            /\ \A i \in 1..Len(ns) :
                   IF relation(ns[i].bounds, q) = Containment(TRUE)
                   THEN CornerOrder(ns[i], q, h)
                   ELSE OwnBeforeChildren(ns[i], h) /\ SlotOrder(ns[i], h)

\* a query inside a node has just returned a leaf of a child node before a
\* leaf of the node itself
C20_Witness ==
    /\ op.kind = "find_in_bounds_positions"
    /\ \E i \in 1..Len(visit_nodes_ref(root)) :
           LET N == visit_nodes_ref(root)[i] IN
           /\ relation(N.bounds, unwrap(op.query)) = Containment(TRUE)
           /\ \E sa, sb \in 1..4 :
                  /\ IsPoint(N.quadrants[sa]) /\ IsNode(N.quadrants[sb])
                  /\ \E a \in UnderSlot(N, sa), b \in UnderSlot(N, sb) :
                         /\ IndexOf(Matches(op.ret), b) > 0
                         /\ IndexOf(Matches(op.ret), b) < IndexOf(Matches(op.ret), a)

(***************************************************************************)
(* C21.  Pruning in the node-contains-query branch: when all four corners  *)
(* of the query lie inside a node's bounds, every leaf of the node's       *)
(* subtree that lies inside the query is under a slot whose quadrant holds *)
(* a corner of the query, so visiting only the quadrants the corners fall  *)
(* into skips no slot with a matching leaf; the matching leaves held in    *)
(* the slots of the root are all returned.                                 *)
(***************************************************************************)
C21_PruningSkipsNoMatch ==
    op.kind \in {"find_in_bounds", "find_in_bounds_positions"} =>
        LET h == Hits
            ns == visit_nodes_ref(root)
            q == unwrap(op.query)
        IN  /\ IsRangeQuery
            /\ \A i \in 1..Len(ns) :
                   CornersInside(ns[i].bounds, q) = 4 =>
                       /\ relation(ns[i].bounds, q) = Containment(TRUE)
                       /\ \A s \in 1..4 : \A p \in UnderSlot(ns[i], s) :
                              InsideRect(q, p) => CornerRank(ns[i], q, s) < 5
            /\ CornersInside(root.bounds, q) = 4 =>
                   \A j \in 1..Len(data(root)) :
                       InsideRect(q, data(root)[j].position)
                           => IndexOf(h, data(root)[j].position) > 0

\* a query inside the root, with corners in two quadrants of it, has just
\* returned a leaf held in the quadrant of its later corners
C21_Witness ==
    /\ op.kind = "find_in_bounds_positions"
    /\ CornersInside(root.bounds, unwrap(op.query)) = 4
    /\ CornerRank(root, unwrap(op.query), BottomLeft) = 1
    /\ CornerRank(root, unwrap(op.query), TopLeft) = 3
    /\ IsPoint(root.quadrants[TopLeft])
    /\ Matches(op.ret) = <<unwrap(root.quadrants[TopLeft]).point.position>>

(***************************************************************************)
(* C22.  relation(a, b) is Disjoint only when a and b have no point in     *)
(* common; so find_in_bounds answers None at a node only if no point of    *)
(* the node's bounds lies inside the query rectangle.                      *)
(***************************************************************************)
\* the rectangles a and b have a point in common, boundaries included
Overlap(a, b) ==
    /\ a.anchor.x <= b.anchor.x + b.width /\ b.anchor.x <= a.anchor.x + a.width
    /\ a.anchor.y <= b.anchor.y + b.height /\ b.anchor.y <= a.anchor.y + a.height

C22_DisjointMeansNoCommonPoint ==
    op.kind \in {"find_in_bounds", "find_in_bounds_positions"} =>
        LET ns == visit_nodes_ref(root)
            q == unwrap(op.query)
        IN  /\ \A i \in 1..Len(ns) :
                   /\ relation(ns[i].bounds, q) = Disjoint => ~Overlap(ns[i].bounds, q)
                   /\ relation(q, ns[i].bounds) = Disjoint => ~Overlap(q, ns[i].bounds)
                   /\ Node_find_in_bounds(ns[i], q) = None => ~Overlap(ns[i].bounds, q)
            /\ op.ret = None => ~Overlap(root.bounds, q)

(***************************************************************************)
(* Rectangle operations, read off the bounds of every node of the tree,    *)
(* under SpecNode.                                                         *)
(***************************************************************************)
\* p lies strictly inside the rectangle r
StrictlyInside(r, p) ==
    /\ r.anchor.x < p.x /\ p.x < r.anchor.x + r.width
    /\ r.anchor.y < p.y /\ p.y < r.anchor.y + r.height

\* points spread over rectangle r and around it: a grid of quarters of its
\* width and height that reaches one quarter beyond each side
Probes(r) ==
    {Point(r.anchor.x + i * (r.width \div 4), r.anchor.y + j * (r.height \div 4)) :
         i \in -1..5, j \in -1..5}

(***************************************************************************)
(* C23.  The four rectangles create_quadrant gives for a rectangle have    *)
(* half its width and half its height each, cover it, do not overlap in    *)
(* their interiors, and their areas add up to its area.                    *)
(***************************************************************************)
C23_QuadrantsPartition ==
    LET ns == visit_nodes_ref(root) IN
    \A i \in 1..Len(ns) :
        LET r == ns[i].bounds
            cs == << create_quadrant(r, BottomLeft), create_quadrant(r, BottomRight),
                     create_quadrant(r, TopRight), create_quadrant(r, TopLeft) >>
            c(q) == cs[q]
        IN  /\ \A q \in 1..4 : 2 * c(q).width = r.width /\ 2 * c(q).height = r.height
            /\ \A p \in Probes(r) :
                   /\ InsideRect(r, p) <=> (\E q \in 1..4 : InsideRect(c(q), p))
                   /\ Cardinality({q \in 1..4 : StrictlyInside(c(q), p)}) <= 1
            /\ min_x(c(BottomLeft)) = min_x(r) /\ max_x(c(BottomLeft)) = min_x(c(BottomRight))
            /\ max_x(c(BottomRight)) = max_x(r)
            /\ min_x(c(TopLeft)) = min_x(r) /\ max_x(c(TopLeft)) = min_x(c(TopRight))
            /\ max_x(c(TopRight)) = max_x(r)
            /\ min_y(c(BottomLeft)) = min_y(r) /\ max_y(c(BottomLeft)) = min_y(c(TopLeft))
            /\ max_y(c(TopLeft)) = max_y(r)
            /\ min_y(c(BottomRight)) = min_y(r) /\ max_y(c(BottomRight)) = min_y(c(TopRight))
            /\ max_y(c(TopRight)) = max_y(r)
            /\ c(1).width * c(1).height + c(2).width * c(2).height
                   + c(3).width * c(3).height + c(4).width * c(4).height
                   = r.width * r.height

\* a tree whose nodes have bounds of four sizes, down to an eighth of the root's
C23_Witness ==
    \E i \in 1..Len(visit_nodes_ref(root)) :
        /\ 8 * visit_nodes_ref(root)[i].bounds.width = bounds.width
        /\ visit_nodes_ref(root)[i].bounds.anchor # bounds.anchor

(***************************************************************************)
(* C24.  find_quadrant(pt) is None exactly when pt is strictly outside the *)
(* rectangle (its boundary is inside); otherwise it names a right quadrant *)
(* only when x is greater than the middle x and a top quadrant only when   *)
(* y is greater than the middle y, so a point on a middle line, the centre *)
(* included, goes to the lower or left quadrant.                           *)
(***************************************************************************)
C24_FindQuadrant ==
    LET ns == visit_nodes_ref(root) IN
    \A i \in 1..Len(ns) :
        LET r == ns[i].bounds
            centre == Point(r.anchor.x + r.width \div 2, r.anchor.y + r.height \div 2)
        IN  /\ \A p \in Probes(r) :
                   LET fq == find_quadrant(r, p) IN
                   /\ is_none(fq) <=> ~InsideRect(r, p)
                   /\ is_some(fq) => InQuadrant(r, unwrap(fq), p)
            /\ find_quadrant(r, centre) = Some(BottomLeft)
            /\ find_quadrant(r, r.anchor) = Some(BottomLeft)
            /\ find_quadrant(r, Point(max_x(r), max_y(r))) = Some(TopRight)
            /\ find_quadrant(r, Point(max_x(r), centre.y)) = Some(BottomRight)
            /\ find_quadrant(r, Point(centre.x, max_y(r))) = Some(TopLeft)

\* a leaf at the very centre of a node is stored under that node's bottom left
\* slot, in a child node of which it is the top right corner
C24_Witness ==
    \E i \in 1..Len(visit_nodes_ref(root)) :
        LET N == visit_nodes_ref(root)[i]
            centre == Point(N.bounds.anchor.x + N.bounds.width \div 2,
                            N.bounds.anchor.y + N.bounds.height \div 2)
        IN  /\ IsNode(N.quadrants[BottomLeft])
            /\ IsPoint(unwrap(N.quadrants[BottomLeft]).node.quadrants[TopRight])
            /\ unwrap(unwrap(N.quadrants[BottomLeft]).node.quadrants[TopRight]).point.position
                   = centre

(***************************************************************************)
(* The tree under insert alone: no removal, replacement or shrink ever      *)
(* happens, and insert itself refuses a position once it is stored.         *)
(***************************************************************************)
NextInsert == \E d \in Payloads, position \in Positions : Insert(d, position)

SpecInsert == Init /\ [][NextInsert]_vars

\* the leaves of the set S whose position lies in quadrant q of the rectangle b
Cell(b, q, S) == {e \in S : InQuadrant(b, q, e.position)}

\* the node a set S of leaves with distinct positions inside b calls for: a slot
\* is empty when its cell holds no leaf, holds the leaf when the cell holds one,
\* and holds the node of the cell's leaves when it holds two or more
RECURSIVE Canon(_, _)
Canon(b, S) ==
    LET slot(q) ==
            LET c == Cell(b, q, S) IN
            IF c = {} THEN None
            ELSE IF Cardinality(c) = 1 THEN Some(TreeNodePoint(CHOOSE e \in c : TRUE))
            ELSE Some(TreeNodeNode(Canon(create_quadrant(b, q), c)))
    IN  [quadrants |-> <<slot(1), slot(2), slot(3), slot(4)>>, bounds |-> b]

\* the set of the leaves stored in the tree r
LeafSet(r) == {Leaves(r)[i] : i \in 1..Len(Leaves(r))}

\* the tree r with the payload of every leaf forgotten
RECURSIVE Shape(_)
Shape(n) ==
    LET slot(q) ==
            IF IsPoint(n.quadrants[q])
            THEN Some(TreeNodePoint(Spatial(0, unwrap(n.quadrants[q]).point.position)))
            ELSE IF IsNode(n.quadrants[q])
            THEN Some(TreeNodeNode(Shape(unwrap(n.quadrants[q]).node)))
            ELSE None
    IN  [quadrants |-> <<slot(1), slot(2), slot(3), slot(4)>>, bounds |-> n.bounds]

(***************************************************************************)
(* C25.  In a tree built by inserts of distinct in-bounds points alone, a  *)
(* slot holds a child node exactly when two or more stored points fall     *)
(* into the slot's quadrant, every child node holds at least two leaves in *)
(* its subtree, and the tree is the one its set of leaves calls for,       *)
(* whatever the order of the inserts: node_count(), aabbs() and every      *)
(* node's data_count depend on the set of stored positions alone.          *)
(***************************************************************************)
C25_ShapeFromPositions ==
    LET ns == visit_nodes_ref(root)
        S == LeafSet(root)
        canon == Canon(bounds, S)
        bare == Canon(bounds, {Spatial(0, e.position) : e \in S})
        cs == visit_nodes_ref(bare)
    IN  /\ status = "ok"
        /\ root = canon
        /\ Shape(root) = bare
        /\ QuadTree_node_count(root) = QuadTree_node_count(bare)
        /\ QuadTree_aabbs(root) = QuadTree_aabbs(bare)
        /\ \A i \in 1..Len(ns) : data_count(ns[i]) = data_count(cs[i])
        /\ \A i \in 1..Len(ns) : \A q \in 1..4 :
               /\ IsNode(ns[i].quadrants[q]) <=>
                      Cardinality({e \in S : InQuadrant(ns[i].bounds, q, e.position)}) >= 2
               /\ IsNode(ns[i].quadrants[q]) =>
                      Len(data_children(unwrap(ns[i].quadrants[q]).node)) >= 2

\* five inserts have built a tree of four nodes, one inside the other
C25_Witness ==
    /\ op.kind = "insert"
    /\ op.ret = TRUE
    /\ QuadTree_len(root) = 5
    /\ QuadTree_node_count(root) = 4

\* a fresh tree with bounds b into which the leaves of the sequence s are inserted in turn
Fresh(b, s) ==
    LET t[i \in 0..Len(s)] ==
            IF i = 0 THEN Node_new_bounded(b)
            ELSE QuadTree_insert(t[i - 1], b, s[i].data, s[i].position).root
    IN  t[Len(s)]

(***************************************************************************)
(* C26.  After shrink() the tree has the node structure of a fresh tree    *)
(* built by inserting the stored points: no child node holds fewer than    *)
(* two leaves, node_count() is not greater than before the call, and a     *)
(* second shrink() changes nothing.                                        *)
(***************************************************************************)
C26_Step ==
    op'.kind = "shrink" =>
        LET after == root'
            ns == visit_nodes_ref(after)
            again == QuadTree_shrink(after)
        IN  /\ status' = "ok"
            /\ after = Fresh(bounds, Leaves(root))
            /\ after = Canon(bounds, LeafSet(root))
            /\ \A i \in 1..Len(ns) : \A q \in 1..4 :
                   IsNode(ns[i].quadrants[q]) =>
                       Len(data_children(unwrap(ns[i].quadrants[q]).node)) >= 2
            /\ QuadTree_node_count(after) <= QuadTree_node_count(root)
            /\ again.why = "ok"
            /\ again.root = after

C26_ShrinkRebuilds == [][C26_Step]_vars

\* a shrink has just left a tree of two nodes, the two leaves in the child node
C26_Witness ==
    /\ op.kind = "shrink"
    /\ status = "ok"
    /\ QuadTree_node_count(root) = 2
    /\ QuadTree_len(root) = 2
    /\ data_count(root) = 0

====
